---- MODULE Spec2Model ----
(***************************************************************************)
(* Model of scipy/signal/windows.py: the seventeen window generators and   *)
(* the get_window dispatcher.                                              *)
(*                                                                         *)
(* Every function of the module is pure, so the state is a call (call),    *)
(* what it produced once it has run (ret) and, for get_window, the         *)
(* generator it called (disp); there is one action per public function.    *)
(*                                                                         *)
(* Samples are exact reals.  A sample is a record [f, x]: f names the      *)
(* closed form that produced it and x is the canonical list of integers    *)
(* that closed form depends on (a reduced fraction, a folded angle, the    *)
(* shape parameters).  Two samples with the same record are the same real  *)
(* number; rationals ("rat") are compared exactly.  Shape parameters are   *)
(* numbers in hundredths (4.0 is 400), lengths are plain integers.         *)
(***************************************************************************)
EXTENDS Integers, Sequences, FiniteSets, TLC

VARIABLES call, ret, disp

vars == <<call, ret, disp>>

(***************************************************************************)
(* Bounds of the model.                                                    *)
(***************************************************************************)
\* Lengths run from -MaxNegative to MaxM.
MaxNegative == 2

MaxM == 7

Lengths == (-MaxNegative)..MaxM

(***************************************************************************)
(* Arithmetic helpers.                                                     *)
(***************************************************************************)
Abs(v) == IF v < 0 THEN -v ELSE v

RECURSIVE Gcd(_, _)
Gcd(a, b) == IF b = 0 THEN a ELSE Gcd(b, a % b)

Min2(a, b) == IF a <= b THEN a ELSE b

\* The exact rational n/d as a sample (d /= 0 wherever the code divides).
Rat(n, d) ==
    LET g == Gcd(Abs(n), Abs(d))
        s == IF d < 0 THEN -1 ELSE 1
    IN  [f |-> "rat", x |-> <<(s * n) \div g, (s * d) \div g>>]

\* |n/d| as a reduced pair: what abs(), ** 2.0 and ** (2 * p) depend on.
\* 0/0 (numpy's nan) stays <<0, 0>> and v/0 (inf) becomes <<1, 0>>.
AbsFrac(n, d) ==
    LET g == Gcd(Abs(n), Abs(d))
    IN  IF g = 0 THEN <<0, 0>> ELSE <<Abs(n) \div g, Abs(d) \div g>>

\* np.cos(2 * pi * n / d): cosine is even and 1-periodic in n/d, so the
\* value is fixed by n/d folded into [0, 1/2].
CosTurn(n, d) ==
    LET r == n % d
    IN  AbsFrac(Min2(r, d - r), d)

One == Rat(1, 1)

Zero == Rat(0, 1)

(***************************************************************************)
(* Python sequence operations used by the generators (0-based indices).    *)
(***************************************************************************)
\* w[::-1]
Reverse(w) == [i \in 1..Len(w) |-> w[Len(w) + 1 - i]]

\* w[start::-1] for a start that is already non-negative or -1 (empty).
RevFrom(w, start) == [i \in 1..(start + 1) |-> w[start + 2 - i]]

\* w[hi:lo:-1] with 0 <= lo <= hi < len(w): indices hi, hi-1, ..., lo+1.
RevRange(w, hi, lo) == [i \in 1..(hi - lo) |-> w[hi + 2 - i]]

\* w[lo:hi] with 0 <= lo, clamped to the length.
Slice(w, lo, hi) ==
    LET h == Min2(hi, Len(w))
    IN  IF h <= lo THEN << >> ELSE [i \in 1..(h - lo) |-> w[lo + i]]

\* w[:-1]
DropLast(w) == IF Len(w) = 0 THEN << >> ELSE SubSeq(w, 1, Len(w) - 1)

\* np.arange(0, M)
Arange(M) == [i \in 1..M |-> i - 1]

(***************************************************************************)
(* Outcomes of a call.                                                     *)
(*   kind     "ok" or the name of the exception raised                     *)
(*   w        the returned sequence                                        *)
(*   computed number of samples the formula produced (0 on a shortcut)     *)
(*   dropped  number of samples removed by the final w[:-1]                *)
(*   matdim   dimension of the matrix handed to linalg.eig (0: none)       *)
(*   scale    the factor twoF of that matrix as <<n, d>>: n/d hundredths   *)
(*   steps    the statements of the body that ran, in order                *)
(***************************************************************************)
Outcome(kind, w, msg, computed, dropped, matdim, scale, steps) ==
    [kind |-> kind, w |-> w, msg |-> msg, computed |-> computed,
     dropped |-> dropped, matdim |-> matdim, scale |-> scale, steps |-> steps]

NoScale == <<0, 1>>

Raise(kind, msg, steps) == Outcome(kind, << >>, msg, 0, 0, 0, NoScale, steps)

\* return np.array([])
EmptyResult(steps) == Outcome("ok", << >>, "", 0, 0, 0, NoScale, steps)

\* OneResult returning np.zeros(1, 'd').
OneResultZeros(steps) == Outcome("ok", <<Zero>>, "", 0, 0, 0, NoScale, steps)

\* return np.ones(1, 'd')
OneResult(steps) == Outcome("ok", <<One>>, "", 0, 0, 0, NoScale, steps)

\* if not sym and not odd: w = w[:-1]; return w
Finish(w, sym, odd) ==
    LET cut == (~sym) /\ (odd = 0)
    IN  Outcome("ok", IF cut THEN DropLast(w) ELSE w, "", Len(w),
                IF cut THEN 1 ELSE 0, 0, NoScale,
                IF cut THEN <<"adjust", "compute", "truncate">>
                       ELSE <<"compute">>)

\* Adjust without the periodic extension.
AdjustNever(M, sym) == M

\* Adjust extending every periodic length, odd ones too.
AdjustAnyParity(M, sym) == IF ~sym THEN M + 1 ELSE M

\* odd = M % 2; if not sym and not odd: M = M + 1
Adjust(M, sym) == IF (~sym) /\ (M % 2 = 0) THEN M + 1 ELSE M

(***************************************************************************)
(* The generators.                                                         *)
(***************************************************************************)
\* boxcar extending an even length in periodic mode without truncating.
boxcarAdjusted(M, sym) ==
    IF M < 0
    THEN Raise("ValueError", "negative dimensions are not allowed", <<"compute">>)
    ELSE Outcome("ok", [i \in 1..Adjust(M, sym) |-> One], "", Adjust(M, sym),
                 0, 0, NoScale, <<"compute">>)

\* np.ones(M, float): a negative shape is refused by numpy.
boxcar(M, sym) ==
    IF M < 0
    THEN Raise("ValueError", "negative dimensions are not allowed", <<"compute">>)
    ELSE Outcome("ok", [i \in 1..M |-> One], "", M, 0, 0, NoScale,
                 <<"compute">>)

\* triang dividing by M instead of M + 1.0 in the odd case.
triangOddByM(M, sym) ==
    IF M < 1 THEN EmptyResult(<<"empty">>)
    ELSE IF M = 1 THEN OneResult(<<"one">>)
    ELSE LET odd == M % 2
             M1  == Adjust(M, sym)
             n   == [k \in 1..((M1 + 1) \div 2) |-> k]
             w   == IF M1 % 2 = 0
                    THEN LET h == [k \in DOMAIN n |-> Rat(2 * n[k] - 1, M1)]
                         IN  h \o Reverse(h)
                    ELSE LET h == [k \in DOMAIN n |-> Rat(2 * n[k], M1)]
                         IN  h \o RevFrom(h, Len(h) - 2)
         IN  Finish(w, sym, odd)

triang(M, sym) ==
    IF M < 1 THEN EmptyResult(<<"empty">>)
    ELSE IF M = 1 THEN OneResult(<<"one">>)
    ELSE LET odd == M % 2
             M1  == Adjust(M, sym)
             n   == [k \in 1..((M1 + 1) \div 2) |-> k]
             w   == IF M1 % 2 = 0
                    THEN LET h == [k \in DOMAIN n |-> Rat(2 * n[k] - 1, M1)]
                         IN  h \o Reverse(h)
                    ELSE LET h == [k \in DOMAIN n |-> Rat(2 * n[k], M1 + 1)]
                         IN  h \o RevFrom(h, Len(h) - 2)
         IN  Finish(w, sym, odd)

\* n holds half-integers; t = 2 * n is kept instead.
parzen(M, sym) ==
    IF M < 1 THEN EmptyResult(<<"empty">>)
    ELSE IF M = 1 THEN OneResult(<<"one">>)
    ELSE LET odd == M % 2
             M1  == Adjust(M, sym)
             t   == [k \in 1..M1 |-> 2 * (k - 1) - (M1 - 1)]
             na  == SelectSeq(t, LAMBDA v : 2 * v < -(M1 - 1))
             nb  == SelectSeq(t, LAMBDA v : 2 * Abs(v) <= M1 - 1)
             wa  == [k \in DOMAIN na |->
                        Rat(2 * (M1 - Abs(na[k])) * (M1 - Abs(na[k]))
                              * (M1 - Abs(na[k])), M1 * M1 * M1)]
             wb  == [k \in DOMAIN nb |->
                        Rat(M1 * M1 * M1 - 6 * M1 * nb[k] * nb[k]
                              + 6 * Abs(nb[k]) * Abs(nb[k]) * Abs(nb[k]),
                            M1 * M1 * M1)]
             w   == wa \o wb \o Reverse(wa)
         IN  Finish(w, sym, odd)

\* np.linspace(-1, 1, M)[k] = (2k - (M-1)) / (M-1); [1:-1] keeps k = 1..M-2.
bohman(M, sym) ==
    IF M < 1 THEN EmptyResult(<<"empty">>)
    ELSE IF M = 1 THEN OneResult(<<"one">>)
    ELSE LET odd == M % 2
             M1  == Adjust(M, sym)
             fac == [k \in 1..(M1 - 2) |-> AbsFrac(2 * k - (M1 - 1), M1 - 1)]
             w   == [k \in DOMAIN fac |-> [f |-> "bohman", x |-> fac[k]]]
         IN  Finish(<<Zero>> \o w \o <<Zero>>, sym, odd)

blackman(M, sym) ==
    IF M < 1 THEN EmptyResult(<<"empty">>)
    ELSE IF M = 1 THEN OneResult(<<"one">>)
    ELSE LET odd == M % 2
             M1  == Adjust(M, sym)
             n   == Arange(M1)
             w   == [k \in DOMAIN n |->
                        [f |-> "blackman",
                         x |-> CosTurn(n[k], M1 - 1) \o CosTurn(2 * n[k], M1 - 1)]]
         IN  Finish(w, sym, odd)

nuttall(M, sym) ==
    IF M < 1 THEN EmptyResult(<<"empty">>)
    ELSE IF M = 1 THEN OneResult(<<"one">>)
    ELSE LET odd == M % 2
             M1  == Adjust(M, sym)
             n   == Arange(M1)
             w   == [k \in DOMAIN n |->
                        [f |-> "nuttall",
                         x |-> CosTurn(n[k], M1 - 1) \o CosTurn(2 * n[k], M1 - 1)
                                 \o CosTurn(3 * n[k], M1 - 1)]]
         IN  Finish(w, sym, odd)

blackmanharris(M, sym) ==
    IF M < 1 THEN EmptyResult(<<"empty">>)
    ELSE IF M = 1 THEN OneResult(<<"one">>)
    ELSE LET odd == M % 2
             M1  == Adjust(M, sym)
             n   == Arange(M1)
             w   == [k \in DOMAIN n |->
                        [f |-> "blackmanharris",
                         x |-> CosTurn(n[k], M1 - 1) \o CosTurn(2 * n[k], M1 - 1)
                                 \o CosTurn(3 * n[k], M1 - 1)]]
         IN  Finish(w, sym, odd)

flattop(M, sym) ==
    IF M < 1 THEN EmptyResult(<<"empty">>)
    ELSE IF M = 1 THEN OneResult(<<"one">>)
    ELSE LET odd == M % 2
             M1  == Adjust(M, sym)
             n   == Arange(M1)
             w   == [k \in DOMAIN n |->
                        [f |-> "flattop",
                         x |-> CosTurn(n[k], M1 - 1) \o CosTurn(2 * n[k], M1 - 1)
                                 \o CosTurn(3 * n[k], M1 - 1)
                                 \o CosTurn(4 * n[k], M1 - 1)]]
         IN  Finish(w, sym, odd)

\* bartlett dividing by M instead of M - 1.
bartlettByM(M, sym) ==
    IF M < 1 THEN EmptyResult(<<"empty">>)
    ELSE IF M = 1 THEN OneResult(<<"one">>)
    ELSE LET odd == M % 2
             M1  == Adjust(M, sym)
             n   == Arange(M1)
             w   == [k \in DOMAIN n |->
                        IF 2 * n[k] <= M1 - 1
                        THEN Rat(2 * n[k], M1)
                        ELSE Rat(2 * M1 - 2 * n[k], M1)]
         IN  Finish(w, sym, odd)

bartlett(M, sym) ==
    IF M < 1 THEN EmptyResult(<<"empty">>)
    ELSE IF M = 1 THEN OneResult(<<"one">>)
    ELSE LET odd == M % 2
             M1  == Adjust(M, sym)
             n   == Arange(M1)
             w   == [k \in DOMAIN n |->
                        IF 2 * n[k] <= M1 - 1
                        THEN Rat(2 * n[k], M1 - 1)
                        ELSE Rat(2 * (M1 - 1) - 2 * n[k], M1 - 1)]
         IN  Finish(w, sym, odd)

hann(M, sym) ==
    IF M < 1 THEN EmptyResult(<<"empty">>)
    ELSE IF M = 1 THEN OneResult(<<"one">>)
    ELSE LET odd == M % 2
             M1  == Adjust(M, sym)
             n   == Arange(M1)
             w   == [k \in DOMAIN n |->
                        [f |-> "hann", x |-> CosTurn(n[k], M1 - 1)]]
         IN  Finish(w, sym, odd)

\* fac = |n / (M - 1.0) - 0.5| = |2n - (M-1)| / (2 (M-1))
barthann(M, sym) ==
    IF M < 1 THEN EmptyResult(<<"empty">>)
    ELSE IF M = 1 THEN OneResult(<<"one">>)
    ELSE LET odd == M % 2
             M1  == Adjust(M, sym)
             n   == Arange(M1)
             fac == [k \in DOMAIN n |->
                        AbsFrac(2 * n[k] - (M1 - 1), 2 * (M1 - 1))]
             w   == [k \in DOMAIN n |->
                        [f |-> "barthann",
                         x |-> fac[k] \o CosTurn(fac[k][1], fac[k][2])]]
         IN  Finish(w, sym, odd)

hamming(M, sym) ==
    IF M < 1 THEN EmptyResult(<<"empty">>)
    ELSE IF M = 1 THEN OneResult(<<"one">>)
    ELSE LET odd == M % 2
             M1  == Adjust(M, sym)
             n   == Arange(M1)
             w   == [k \in DOMAIN n |->
                        [f |-> "hamming", x |-> CosTurn(n[k], M1 - 1)]]
         IN  Finish(w, sym, odd)

\* (n - alpha) / alpha = (2n - (M-1)) / (M-1); ** 2.0 keeps its magnitude.
kaiser(M, beta, sym) ==
    IF M < 1 THEN EmptyResult(<<"empty">>)
    ELSE IF M = 1 THEN OneResult(<<"one">>)
    ELSE LET odd == M % 2
             M1  == Adjust(M, sym)
             n   == Arange(M1)
             w   == [k \in DOMAIN n |->
                        [f |-> "kaiser",
                         x |-> AbsFrac(2 * n[k] - (M1 - 1), M1 - 1) \o <<beta>>]]
         IN  Finish(w, sym, odd)

\* n = arange(0, M) - (M - 1.0) / 2.0, kept as (2k - (M-1)) / 2.
gaussian(M, std, sym) ==
    IF M < 1 THEN EmptyResult(<<"empty">>)
    ELSE IF M = 1 THEN OneResult(<<"one">>)
    ELSE LET odd  == M % 2
             M1   == Adjust(M, sym)
             n    == [k \in 1..M1 |-> 2 * (k - 1) - (M1 - 1)]
             sig2 == 2 * std * std
             w    == [k \in DOMAIN n |->
                         [f |-> "gaussian",
                          x |-> AbsFrac(n[k], 2) \o <<sig2>>]]
         IN  Finish(w, sym, odd)

\* n / sig with sig in hundredths is 100 (2k - (M-1)) / (2 sig).
general_gaussian(M, p, sig, sym) ==
    IF M < 1 THEN EmptyResult(<<"empty">>)
    ELSE IF M = 1 THEN OneResult(<<"one">>)
    ELSE LET odd == M % 2
             M1  == Adjust(M, sym)
             n   == [k \in 1..M1 |-> 2 * (k - 1) - (M1 - 1)]
             w   == [k \in DOMAIN n |->
                        [f |-> "general_gaussian",
                         x |-> AbsFrac(100 * n[k], 2 * sig) \o <<2 * p>>]]
         IN  Finish(w, sym, odd)

\* np.real(fft(p))[j] for the Chebyshev samples p of length M and
\* attenuation |at|, divided by the coefficient of index norm; shift says
\* whether p was multiplied by exp(1j * pi / M * k) first.
ChebCoef(j, norm, M, at, shift) ==
    [f |-> IF shift THEN "chebwin_even" ELSE "chebwin_odd",
     x |-> <<j, norm, M, Abs(at)>>]

\* n = (M + 1) / 2 for odd M and n = M / 2 + 1 for even M are exact
\* integers, used as slice bounds.
chebwin(M, at, sym) ==
    IF M < 1 THEN EmptyResult(<<"empty">>)
    ELSE IF M = 1 THEN OneResult(<<"one">>)
    ELSE LET odd == M % 2
             M1  == Adjust(M, sym)
             w   == IF M1 % 2 = 1
                    THEN LET n  == (M1 + 1) \div 2
                             w0 == [j \in 1..M1 |-> ChebCoef(j - 1, 0, M1, at, FALSE)]
                             w1 == Slice(w0, 0, n)
                         IN  RevRange(w1, n - 1, 0) \o w1
                    ELSE LET n  == M1 \div 2 + 1
                             w0 == [j \in 1..M1 |-> ChebCoef(j - 1, 1, M1, at, TRUE)]
                         IN  RevRange(w0, n - 1, 0) \o Slice(w0, 1, n)
         IN  Finish(w, sym, odd)

\* M * width > 27.38 with width in hundredths.
SlepianLimit == 2738

\* TwoF without the halving: twoF = width.
TwoFIsWidth(width) == <<width, 1>>

\* twoF = width / 2.0, as <<n, d>> for n/d hundredths.
TwoF(width) == <<width, 2>>

\* [lam, vec] = linalg.eig(AF); ind = np.argmax(abs(lam), axis=-1);
\* w = np.abs(vec[:, ind]); w = w / max(w)
\* for AF[n, k] = twoF * sinc(twoF * (n - k)), twoF = width / 2.0.  With
\* twoF = 0 the matrix is zero: every eigenvalue is 0, the eigenvectors are
\* the unit vectors and argmax picks the first.  Otherwise AF is symmetric
\* Toeplitz with a simple dominant eigenvalue, whose eigenvector is
\* symmetric about the centre up to sign; np.abs removes the sign.
DominantVector(M, width) ==
    IF width = 0
    THEN [i \in 1..M |-> IF i = 1 THEN One ELSE Zero]
    ELSE [i \in 1..M |->
             [f |-> "slepian",
              x |-> <<Min2(i - 1, M - i), M, Abs(TwoF(width)[1]),
                      TwoF(width)[2]>>]]

\* slepian with the M * width check placed after the two shortcuts.
slepianCheckLate(M, width, sym) ==
    IF M < 1 THEN EmptyResult(<<"empty">>)
    ELSE IF M = 1 THEN OneResult(<<"one">>)
    ELSE IF M * width > SlepianLimit
    THEN Raise("ValueError",
               "Cannot reliably obtain slepian sequences for M*width > 27.38.",
               <<"check">>)
    ELSE LET odd == M % 2
             cut == (~sym) /\ (odd = 0)
             M1  == Adjust(M, sym)
             w   == DominantVector(M1, width)
         IN  Outcome("ok", IF cut THEN DropLast(w) ELSE w, "", Len(w),
                     IF cut THEN 1 ELSE 0, M1, TwoF(width),
                     IF cut THEN <<"check", "adjust", "matrix", "eig", "truncate">>
                            ELSE <<"check", "matrix", "eig">>)

slepian(M, width, sym) ==
    IF M * width > SlepianLimit
    THEN Raise("ValueError",
               "Cannot reliably obtain slepian sequences for M*width > 27.38.",
               <<"check">>)
    ELSE IF M < 1 THEN EmptyResult(<<"check", "empty">>)
    ELSE IF M = 1 THEN OneResult(<<"check", "one">>)
    ELSE LET odd == M % 2
             cut == (~sym) /\ (odd = 0)
             M1  == Adjust(M, sym)
             w   == DominantVector(M1, width)
         IN  Outcome("ok", IF cut THEN DropLast(w) ELSE w, "", Len(w),
                     IF cut THEN 1 ELSE 0, M1, TwoF(width),
                     IF cut THEN <<"check", "adjust", "matrix", "eig", "truncate">>
                            ELSE <<"check", "matrix", "eig">>)

(***************************************************************************)
(* Python values handed to get_window.                                     *)
(*   ty "num"   a float, i in hundredths      ty "int"  an integer i       *)
(*   ty "bool"  i is 0 or 1                   ty "str"  the string s       *)
(*   ty "none"  None                          ty "tuple" the tuple items   *)
(***************************************************************************)
PyNum(i) == [ty |-> "num", i |-> i, s |-> "", items |-> << >>]

PyInt(i) == [ty |-> "int", i |-> i, s |-> "", items |-> << >>]

PyBool(b) == [ty |-> "bool", i |-> IF b THEN 1 ELSE 0, s |-> "", items |-> << >>]

PyStr(s) == [ty |-> "str", i |-> 0, s |-> s, items |-> << >>]

PyNone == [ty |-> "none", i |-> 0, s |-> "", items |-> << >>]

PyTuple(items) == [ty |-> "tuple", i |-> 0, s |-> "", items |-> items]

\* The strings of the model that Python's float() accepts, with their value.
NumericLiteral == [s \in {"4.0", "14"} |-> IF s = "4.0" THEN 400 ELSE 1400]

\* float(v): ok says whether it returned, v is the number in hundredths.
PyFloat(v) ==
    CASE v.ty = "num"  -> [ok |-> TRUE, v |-> v.i]
      [] v.ty = "int"  -> [ok |-> TRUE, v |-> 100 * v.i]
      [] v.ty = "bool" -> [ok |-> TRUE, v |-> 100 * v.i]
      [] v.ty = "str"  -> IF v.s \in DOMAIN NumericLiteral
                          THEN [ok |-> TRUE, v |-> NumericLiteral[v.s]]
                          ELSE [ok |-> FALSE, v |-> 0]
      [] OTHER         -> [ok |-> FALSE, v |-> 0]

\* The number a numeric argument stands for inside a generator's arithmetic.
NumOf(v) == IF v.ty = "num" THEN v.i ELSE 100 * v.i

\* not sym, for the value bound to sym
Truth(v) == v.i /= 0

\* Number of shape parameters between M and sym in each signature.
Arity(fn) ==
    CASE fn \in {"kaiser", "gaussian", "chebwin", "slepian"} -> 1
      [] fn = "general_gaussian" -> 2
      [] OTHER -> 0

\* Positional binding of params to the signature (M, shape..., sym=True):
\* ok is false when Python refuses the argument count.
Binding(winfunc, params) ==
    LET a == Arity(winfunc)
        L == Len(params)
    IN  IF L < a + 1 \/ L > a + 2
        THEN [ok |-> FALSE, M |-> 0, shape |-> << >>, sym |-> TRUE]
        ELSE [ok    |-> TRUE,
              M     |-> params[1].i,
              shape |-> SubSeq(params, 2, a + 1),
              sym   |-> IF L = a + 2 THEN Truth(params[L]) ELSE TRUE]

\* winfunc(*params)
Apply(winfunc, params) ==
    LET b == Binding(winfunc, params)
    IN  IF ~b.ok
        THEN Raise("TypeError", "wrong number of arguments", << >>)
        ELSE LET M   == b.M
                 sym == b.sym
                 p1  == NumOf(b.shape[1])
                 p2  == NumOf(b.shape[2])
             IN  CASE winfunc = "boxcar"           -> boxcar(M, sym)
                   [] winfunc = "triang"           -> triang(M, sym)
                   [] winfunc = "parzen"           -> parzen(M, sym)
                   [] winfunc = "bohman"           -> bohman(M, sym)
                   [] winfunc = "blackman"         -> blackman(M, sym)
                   [] winfunc = "nuttall"          -> nuttall(M, sym)
                   [] winfunc = "blackmanharris"   -> blackmanharris(M, sym)
                   [] winfunc = "flattop"          -> flattop(M, sym)
                   [] winfunc = "bartlett"         -> bartlett(M, sym)
                   [] winfunc = "hann"             -> hann(M, sym)
                   [] winfunc = "barthann"         -> barthann(M, sym)
                   [] winfunc = "hamming"          -> hamming(M, sym)
                   [] winfunc = "kaiser"           -> kaiser(M, p1, sym)
                   [] winfunc = "gaussian"         -> gaussian(M, p1, sym)
                   [] winfunc = "general_gaussian" -> general_gaussian(M, p1, p2, sym)
                   [] winfunc = "chebwin"          -> chebwin(M, p1, sym)
                   [] winfunc = "slepian"          -> slepian(M, p1, sym)

(***************************************************************************)
(* get_window.                                                             *)
(***************************************************************************)
\* The list of bare names refused as needing parameters.
NeedsParams ==
    {"kaiser", "ksr", "gaussian", "gauss", "gss",
     "general gaussian", "general_gaussian",
     "general gauss", "general_gauss", "ggs",
     "slepian", "optimal", "slep", "dss",
     "chebwin", "cheb"}

\* Chain with the alias "ham" repeated in the list of hann.
ChainHamTwice ==
    << [fn |-> "blackman",         names |-> {"blackman", "black", "blk"}],
       [fn |-> "triang",           names |-> {"triangle", "triang", "tri"}],
       [fn |-> "hamming",          names |-> {"hamming", "hamm", "ham"}],
       [fn |-> "bartlett",         names |-> {"bartlett", "bart", "brt"}],
       [fn |-> "hann",             names |-> {"hanning", "hann", "han", "ham"}],
       [fn |-> "blackmanharris",   names |-> {"blackmanharris", "blackharr", "bkh"}],
       [fn |-> "parzen",           names |-> {"parzen", "parz", "par"}],
       [fn |-> "bohman",           names |-> {"bohman", "bman", "bmn"}],
       [fn |-> "nuttall",          names |-> {"nuttall", "nutl", "nut"}],
       [fn |-> "barthann",         names |-> {"barthann", "brthan", "bth"}],
       [fn |-> "flattop",          names |-> {"flattop", "flat", "flt"}],
       [fn |-> "kaiser",           names |-> {"kaiser", "ksr"}],
       [fn |-> "gaussian",         names |-> {"gaussian", "gauss", "gss"}],
       [fn |-> "general_gaussian", names |-> {"general gaussian", "general_gaussian",
                                              "general gauss", "general_gauss", "ggs"}],
       [fn |-> "boxcar",           names |-> {"boxcar", "box", "ones", "rect",
                                              "rectangular"}],
       [fn |-> "slepian",          names |-> {"slepian", "slep", "optimal", "dpss",
                                              "dss"}],
       [fn |-> "chebwin",          names |-> {"chebwin", "cheb"}] >>

\* The membership lists of the if/elif chain, in the order of the chain.
Chain ==
    << [fn |-> "blackman",         names |-> {"blackman", "black", "blk"}],
       [fn |-> "triang",           names |-> {"triangle", "triang", "tri"}],
       [fn |-> "hamming",          names |-> {"hamming", "hamm", "ham"}],
       [fn |-> "bartlett",         names |-> {"bartlett", "bart", "brt"}],
       [fn |-> "hann",             names |-> {"hanning", "hann", "han"}],
       [fn |-> "blackmanharris",   names |-> {"blackmanharris", "blackharr", "bkh"}],
       [fn |-> "parzen",           names |-> {"parzen", "parz", "par"}],
       [fn |-> "bohman",           names |-> {"bohman", "bman", "bmn"}],
       [fn |-> "nuttall",          names |-> {"nuttall", "nutl", "nut"}],
       [fn |-> "barthann",         names |-> {"barthann", "brthan", "bth"}],
       [fn |-> "flattop",          names |-> {"flattop", "flat", "flt"}],
       [fn |-> "kaiser",           names |-> {"kaiser", "ksr"}],
       [fn |-> "gaussian",         names |-> {"gaussian", "gauss", "gss"}],
       [fn |-> "general_gaussian", names |-> {"general gaussian", "general_gaussian",
                                              "general gauss", "general_gauss", "ggs"}],
       [fn |-> "boxcar",           names |-> {"boxcar", "box", "ones", "rect",
                                              "rectangular"}],
       [fn |-> "slepian",          names |-> {"slepian", "slep", "optimal", "dpss",
                                              "dss"}],
       [fn |-> "chebwin",          names |-> {"chebwin", "cheb"}] >>

\* winstr in [...]: a value that is not a string equals none of the names.
InList(winstr, names) == winstr.ty = "str" /\ winstr.s \in names

\* The if/elif chain from branch k on: the first branch whose list holds
\* winstr decides; "" stands for the final else.
RECURSIVE ResolveFrom(_, _)
ResolveFrom(winstr, k) ==
    IF k > Len(Chain) THEN ""
    ELSE IF InList(winstr, Chain[k].names) THEN Chain[k].fn
    ELSE ResolveFrom(winstr, k + 1)

\* Resolve with boxcar as the final else instead of the error.
ResolveDefaultBoxcar(winstr) ==
    IF ResolveFrom(winstr, 1) = "" THEN "boxcar" ELSE ResolveFrom(winstr, 1)

Resolve(winstr) == ResolveFrom(winstr, 1)

\* What get_window did besides returning: the generator it called (""
\* when none), the argument tuple, and whether the chain compared a name.
Dispatch(winfunc, params, lookup) ==
    [winfunc |-> winfunc, params |-> params, lookup |-> lookup]

NoDispatch == Dispatch("", << >>, FALSE)

\* From `if winstr in [...]` to `return winfunc(*params)`.
Lookup(winstr, args, Nx, sym) ==
    LET winfunc == Resolve(winstr)
        params  == <<PyInt(Nx)>> \o args \o <<PyBool(sym)>>
    IN  IF winfunc = ""
        THEN [ret  |-> Raise("ValueError", "Unknown window type.", << >>),
              disp |-> Dispatch("", << >>, TRUE)]
        ELSE [ret  |-> Apply(winfunc, params),
              disp |-> Dispatch(winfunc, params, TRUE)]

\* KaiserShortcut with params = (Nx, beta, fftbins).
KaiserShortcutFftbins(Nx, beta, sym) ==
    LET params == <<PyInt(Nx), PyNum(beta), PyBool(~sym)>>
    IN  [ret  |-> Apply("kaiser", params),
         disp |-> Dispatch("kaiser", params, FALSE)]

\* The else of the try: winfunc = kaiser; params = (Nx, beta, sym).
KaiserShortcut(Nx, beta, sym) ==
    LET params == <<PyInt(Nx), PyNum(beta), PyBool(sym)>>
    IN  [ret  |-> Apply("kaiser", params),
         disp |-> Dispatch("kaiser", params, FALSE)]

get_window(window, Nx, fftbins) ==
    LET sym  == ~fftbins
        beta == PyFloat(window)
    IN  IF beta.ok
        THEN KaiserShortcut(Nx, beta.v, sym)
        ELSE LET args == IF window.ty = "tuple" /\ Len(window.items) > 1
                         THEN Tail(window.items) ELSE << >>
             IN  IF window.ty = "tuple"
                 THEN IF Len(window.items) = 0
                      THEN [ret  |-> Raise("IndexError",
                                           "tuple index out of range", << >>),
                            disp |-> NoDispatch]
                      ELSE Lookup(window.items[1], args, Nx, sym)
                 ELSE IF window.ty = "str"
                 THEN IF window.s \in NeedsParams
                      THEN [ret  |-> Raise("ValueError",
                                           "window needs one or more parameters  -- pass a tuple.",
                                           << >>),
                            disp |-> NoDispatch]
                      ELSE Lookup(window, args, Nx, sym)
                 ELSE [ret  |-> Raise("UnboundLocalError",
                                      "local variable 'winstr' referenced before assignment",
                                      << >>),
                       disp |-> NoDispatch]

(***************************************************************************)
(* Inputs of the model.                                                    *)
(***************************************************************************)
\* Shape parameters, in hundredths.
Betas == {0, 400, 1400}

Stds == {0, 100, 250}

Powers == {50, 100}

Sigs == {0, 200}

Attens == {-5000, 0, 10000}

Widths == {-3000, 0, 30, 100, 1000, 2738, 2739}

\* Every spelling the chain accepts.
AllAliases == UNION {Chain[k].names : k \in DOMAIN Chain}

\* Every generator.
Generators == {Chain[k].fn : k \in DOMAIN Chain}

\* Names outside the alias table, and a string that is a numeric literal.
UnknownNames == {"Hann", "HAMMING", "foo"}

Strings == AllAliases \cup UnknownNames \cup DOMAIN NumericLiteral

\* Trailing parameters of a tuple specification.
ParamLists ==
    {<< >>, <<PyNum(400)>>, <<PyNum(1000)>>, <<PyNum(400), PyNum(200)>>,
     <<PyNum(100), PyNum(200), PyNum(300)>>}

Heads == {PyStr(s) : s \in Strings} \cup {PyNum(400)}

Windows ==
    {PyNum(400), PyNum(1400), PyBool(TRUE), PyNone, PyTuple(<< >>)}
      \cup {PyStr(s) : s \in Strings}
      \cup {PyTuple(<<h>> \o ps) : h \in Heads, ps \in ParamLists}

(***************************************************************************)
(* The state machine.  Init draws a call that has not run yet; the action  *)
(* of the called function runs it and records what it did.                 *)
(***************************************************************************)
Call(fn, M, args, sym, window, fftbins) ==
    [fn |-> fn, M |-> M, args |-> args, sym |-> sym, window |-> window,
     fftbins |-> fftbins]

\* The calls of the generators without shape parameters.
Calls0 ==
    {Call(fn, M, << >>, sym, PyNone, FALSE) :
        fn \in {g \in Generators : Arity(g) = 0},
        M \in Lengths, sym \in BOOLEAN}

Calls1(fn, shapes) ==
    {Call(fn, M, <<p>>, sym, PyNone, FALSE) :
        M \in Lengths, p \in shapes, sym \in BOOLEAN}

Calls2 ==
    {Call("general_gaussian", M, <<p, sig>>, sym, PyNone, FALSE) :
        M \in Lengths, p \in Powers, sig \in Sigs, sym \in BOOLEAN}

CallsGetWindow ==
    {Call("get_window", Nx, << >>, ~fftbins, window, fftbins) :
        window \in Windows, Nx \in Lengths, fftbins \in BOOLEAN}

Calls ==
    Calls0 \cup Calls1("kaiser", Betas) \cup Calls1("gaussian", Stds)
      \cup Calls1("chebwin", Attens) \cup Calls1("slepian", Widths)
      \cup Calls2 \cup CallsGetWindow

\* ret before the call has run.
Pending == Raise("", "", << >>)

Done == ret.kind /= ""

Init ==
    /\ call \in Calls
    /\ ret = Pending
    /\ disp = NoDispatch

\* The pending call of generator fn runs and produces result.
Run(fn, result) ==
    /\ call.fn = fn
    /\ ~Done
    /\ ret' = result
    /\ UNCHANGED <<call, disp>>

CallBoxcar == Run("boxcar", boxcar(call.M, call.sym))

CallTriang == Run("triang", triang(call.M, call.sym))

CallParzen == Run("parzen", parzen(call.M, call.sym))

CallBohman == Run("bohman", bohman(call.M, call.sym))

CallBlackman == Run("blackman", blackman(call.M, call.sym))

CallNuttall == Run("nuttall", nuttall(call.M, call.sym))

CallBlackmanharris == Run("blackmanharris", blackmanharris(call.M, call.sym))

CallFlattop == Run("flattop", flattop(call.M, call.sym))

CallBartlett == Run("bartlett", bartlett(call.M, call.sym))

CallHann == Run("hann", hann(call.M, call.sym))

CallBarthann == Run("barthann", barthann(call.M, call.sym))

CallHamming == Run("hamming", hamming(call.M, call.sym))

CallKaiser == Run("kaiser", kaiser(call.M, call.args[1], call.sym))

CallGaussian == Run("gaussian", gaussian(call.M, call.args[1], call.sym))

CallGeneralGaussian ==
    Run("general_gaussian",
        general_gaussian(call.M, call.args[1], call.args[2], call.sym))

CallChebwin == Run("chebwin", chebwin(call.M, call.args[1], call.sym))

CallSlepian == Run("slepian", slepian(call.M, call.args[1], call.sym))

CallGetWindow ==
    /\ call.fn = "get_window"
    /\ ~Done
    /\ LET r == get_window(call.window, call.M, call.fftbins)
       IN  /\ ret' = r.ret
           /\ disp' = r.disp
    /\ UNCHANGED call

Next ==
    \/ CallBoxcar
    \/ CallTriang
    \/ CallParzen
    \/ CallBohman
    \/ CallBlackman
    \/ CallNuttall
    \/ CallBlackmanharris
    \/ CallFlattop
    \/ CallBartlett
    \/ CallHann
    \/ CallBarthann
    \/ CallHamming
    \/ CallKaiser
    \/ CallGaussian
    \/ CallGeneralGaussian
    \/ CallChebwin
    \/ CallSlepian
    \/ CallGetWindow

Spec == Init /\ [][Next]_vars

(***************************************************************************)
(* Properties of the generators.                                           *)
(***************************************************************************)
\* A generator called directly, as fn(M, *args, sym), has run.
RanGenerator == Done /\ call.fn \in Generators

\* fn(M, *args, sym) for numbers args.
Generate(fn, M, args, sym) ==
    Apply(fn, <<PyInt(M)>> \o [i \in DOMAIN args |-> PyNum(args[i])]
                \o <<PyBool(sym)>>)

\* C1: a generator called with M >= 1 that returns, returns exactly M
\* samples; in periodic mode (sym false) with even M the generators that
\* adjust the length computed M + 1 samples and dropped exactly one.
C1_LengthIsM ==
    (RanGenerator /\ call.M >= 1 /\ ret.kind = "ok") =>
        /\ Len(ret.w) = call.M
        /\ (call.fn /= "boxcar" /\ ~call.sym /\ call.M % 2 = 0) =>
              (ret.computed = call.M + 1 /\ ret.dropped = 1)

C1_Witness ==
    /\ RanGenerator /\ call.fn = "chebwin" /\ call.M = 6 /\ ~call.sym
    /\ ret.kind = "ok" /\ Len(ret.w) = 6 /\ ret.computed = 7 /\ ret.dropped = 1

\* C2: every generator called with M < 1 returns the empty sequence and
\* does not fail.
C2_EmptyBelowOne ==
    (RanGenerator /\ call.M < 1) => (ret.kind = "ok" /\ ret.w = << >>)

\* C3: every generator except boxcar called with M = 1 returns [1.0],
\* whatever the shape parameter.
C3_OneAtLengthOne ==
    (RanGenerator /\ call.fn /= "boxcar" /\ call.M = 1) =>
        (ret.kind = "ok" /\ ret.w = <<One>>)

\* C3 as amended: every generator except boxcar called with M = 1 returns
\* [1.0], except slepian with width > 27.38, which fails with ValueError.
C3_OneAtLengthOneAmended ==
    (RanGenerator /\ call.fn /= "boxcar" /\ call.M = 1) =>
        IF call.fn = "slepian" /\ call.args[1] > SlepianLimit
        THEN ret.kind = "ValueError"
        ELSE ret.kind = "ok" /\ ret.w = <<One>>

C3_Witness ==
    /\ RanGenerator /\ call.fn = "slepian" /\ call.M = 1
    /\ call.args[1] = SlepianLimit /\ ret.kind = "ok" /\ ret.w = <<One>>

\* C4: for even M >= 2 the call with sym false has the outcome of the call
\* with sym true at length M + 1 with its last sample dropped: both return
\* or both fail, and the periodic window is the first M symmetric samples.
C4_PeriodicIsTruncatedSymmetric ==
    (RanGenerator /\ call.M >= 2 /\ call.M % 2 = 0 /\ ~call.sym) =>
        LET s == Generate(call.fn, call.M + 1, call.args, TRUE)
        IN  /\ ret.kind = s.kind
            /\ ret.kind = "ok" => ret.w = DropLast(s.w)

\* C5: with sym true every returned window is a palindrome.
C5_Palindromic ==
    (RanGenerator /\ call.M >= 1 /\ call.sym /\ ret.kind = "ok") =>
        \A i \in 1..Len(ret.w) : ret.w[i] = ret.w[Len(ret.w) + 1 - i]

(***************************************************************************)
(* Properties of get_window.                                               *)
(***************************************************************************)
RanGetWindow == Done /\ call.fn = "get_window"

\* The specification is a bare string, or a tuple headed by a string.
IsNamed(window) ==
    \/ window.ty = "str"
    \/ window.ty = "tuple" /\ Len(window.items) >= 1
         /\ window.items[1].ty = "str"

\* The name of such a specification, and its trailing parameters.
NameOf(window) == IF window.ty = "str" THEN window ELSE window.items[1]

TrailingOf(window) == IF window.ty = "str" THEN << >> ELSE Tail(window.items)

\* The aliases of the families that take shape parameters.
ParameterizedAliases ==
    UNION {Chain[k].names : k \in {j \in DOMAIN Chain : Arity(Chain[j].fn) > 0}}

\* The same specification spelled with the canonical name of its family.
Canonical(window) ==
    IF window.ty = "str"
    THEN PyStr(Resolve(window))
    ELSE PyTuple(<<PyStr(Resolve(window.items[1]))>> \o Tail(window.items))

\* C6: a bare string that is an alias of a parameterized family fails with
\* the validation error and no generator is invoked.
C6_BareParameterizedRejected ==
    (RanGetWindow /\ call.window.ty = "str"
       /\ call.window.s \in ParameterizedAliases) =>
        (ret.kind = "ValueError" /\ disp.winfunc = "")

\* C7: a name (bare string or head of a tuple) outside the alias table
\* fails with ValueError "Unknown window type." and no generator is invoked.
C7_UnknownNameRejected ==
    (RanGetWindow /\ IsNamed(call.window)
       /\ NameOf(call.window).s \notin AllAliases) =>
        /\ ret.kind = "ValueError"
        /\ ret.msg = "Unknown window type."
        /\ disp.winfunc = ""

\* C7 as amended: a name outside the alias table fails with ValueError
\* "Unknown window type." and no generator is invoked, unless it is a bare
\* string that float() accepts as a number.
C7_UnknownNameRejectedAmended ==
    (RanGetWindow /\ IsNamed(call.window)
       /\ NameOf(call.window).s \notin AllAliases
       /\ ~(call.window.ty = "str" /\ call.window.s \in DOMAIN NumericLiteral)) =>
        /\ ret.kind = "ValueError"
        /\ ret.msg = "Unknown window type."
        /\ disp.winfunc = ""

C7_Witness ==
    /\ RanGetWindow /\ call.window = PyTuple(<<PyStr("Hann"), PyNum(400)>>)
    /\ call.M = 6 /\ ret.kind = "ValueError"
    /\ ret.msg = "Unknown window type." /\ disp.lookup

\* C8: get_window with an alias has the outcome of get_window with the
\* canonical name of the alias's family, as a bare string and as the head
\* of a tuple.
C8_AliasSameAsCanonical ==
    (RanGetWindow /\ IsNamed(call.window)
       /\ NameOf(call.window).s \in AllAliases) =>
        LET c == get_window(Canonical(call.window), call.M, call.fftbins).ret
        IN  ret.kind = c.kind /\ ret.w = c.w

\* C9: a specification that float() accepts as the number beta returns
\* kaiser(Nx, beta, sym = not fftbins), which is what the tuple
\* ('kaiser', beta) returns, and no name is looked up.
C9_BareNumberIsKaiser ==
    (RanGetWindow /\ PyFloat(call.window).ok) =>
        LET beta == PyFloat(call.window).v
        IN  /\ ret = kaiser(call.M, beta, ~call.fftbins)
            /\ ret = get_window(PyTuple(<<PyStr("kaiser"), PyNum(beta)>>),
                                call.M, call.fftbins).ret
            /\ disp.winfunc = "kaiser"
            /\ ~disp.lookup

C9_Witness ==
    /\ RanGetWindow /\ call.window = PyStr("4.0") /\ call.M = 6 /\ call.fftbins
    /\ ret.kind = "ok" /\ Len(ret.w) = 6 /\ ret.dropped = 1
    /\ ret.w[1] = [f |-> "kaiser", x |-> <<1, 1, 400>>]

\* C10: a tuple headed by a recognized name, and a bare name that reaches a
\* generator, call the resolved generator with (Nx, p1, ..., pk, not
\* fftbins), which binds its length to Nx, its shape parameters to p1..pk
\* and its sym to not fftbins.
C10_SymIsNotFftbins ==
    (RanGetWindow /\ IsNamed(call.window)
       /\ \/ call.window.ty = "tuple" /\ NameOf(call.window).s \in AllAliases
          \/ call.window.ty = "str" /\ disp.lookup /\ disp.winfunc /= "") =>
        LET b == Binding(disp.winfunc, disp.params)
        IN  /\ disp.winfunc = Resolve(NameOf(call.window))
            /\ disp.params = <<PyInt(call.M)>> \o TrailingOf(call.window)
                               \o <<PyBool(~call.fftbins)>>
            /\ b.ok
            /\ b.M = call.M
            /\ b.shape = TrailingOf(call.window)
            /\ b.sym = ~call.fftbins

(***************************************************************************)
(* Further properties of the generators.                                   *)
(***************************************************************************)
\* C11: slepian fails with ValueError exactly when M * width > 27.38, and
\* the check is the first statement to run: nothing else has run when it
\* fails, and the shortcuts, the length adjustment and the matrix
\* construction come after it when it passes.
C11_SlepianCheckFirst ==
    (RanGenerator /\ call.fn = "slepian") =>
        /\ Len(ret.steps) >= 1 /\ ret.steps[1] = "check"
        /\ \A i \in 2..Len(ret.steps) : ret.steps[i] /= "check"
        /\ IF call.M * call.args[1] > SlepianLimit
           THEN ret.kind = "ValueError" /\ ret.steps = <<"check">>
                  /\ ret.matdim = 0
           ELSE ret.kind = "ok"

C11_Witness ==
    /\ RanGenerator /\ call.fn = "slepian" /\ call.M = -1
    /\ call.args[1] = -3000 /\ ret.kind = "ValueError"
    /\ ret.steps = <<"check">>

\* The aliases of boxcar in the chain.
BoxcarAliases == {"boxcar", "box", "ones", "rect", "rectangular"}

\* C12: boxcar(M) is M ones for every M >= 0 and does not depend on sym;
\* get_window with a boxcar alias is the same for both values of fftbins
\* and is that sequence of ones.
C12_BoxcarIgnoresSym ==
    /\ (RanGenerator /\ call.fn = "boxcar" /\ call.M >= 0) =>
          /\ ret.kind = "ok"
          /\ ret.w = [i \in 1..call.M |-> One]
          /\ ret = boxcar(call.M, ~call.sym)
    /\ (RanGetWindow /\ call.window.ty = "str"
          /\ call.window.s \in BoxcarAliases) =>
          /\ disp.winfunc = "boxcar"
          /\ ret = get_window(call.window, call.M, ~call.fftbins).ret
          /\ ret = get_window(PyStr("boxcar"), call.M, call.fftbins).ret
          /\ call.M >= 0 => (ret.kind = "ok" /\ ret.w = [i \in 1..call.M |-> One])

C12_Witness ==
    /\ RanGetWindow /\ call.window = PyStr("rect") /\ call.M = 4 /\ call.fftbins
    /\ ret.kind = "ok" /\ ret.w = <<One, One, One, One>>

\* The ramp the documentation gives for a length L >= 2: sample i (from 1)
\* and its mirror L + 1 - i are 2k / (L + 1) for odd L and (2k - 1) / L for
\* even L, where k counts from the nearer end.
TriangRamp(L) ==
    [i \in 1..L |->
        LET k == Min2(i, L + 1 - i)
        IN  IF L % 2 = 1 THEN Rat(2 * k, L + 1) ELSE Rat(2 * k - 1, L)]

\* C13: triang computes the ramp over the post-adjustment length M' (M + 1
\* when sym is false and M is even, else M) and returns it, less its last
\* sample when the length was adjusted; triang(7) and
\* get_window('triang', 7) are [1/4, 1/2, 3/4, 1, 3/4, 1/2, 1/4].
C13_TriangRamp ==
    /\ (RanGenerator /\ call.fn = "triang" /\ call.M >= 2) =>
          LET adjusted == ~call.sym /\ call.M % 2 = 0
              L == IF adjusted THEN call.M + 1 ELSE call.M
          IN  /\ ret.kind = "ok"
              /\ ret.computed = L
              /\ ret.w = IF adjusted THEN DropLast(TriangRamp(L))
                                     ELSE TriangRamp(L)
    /\ (call.M = 7
          /\ \/ RanGenerator /\ call.fn = "triang" /\ call.sym
             \/ RanGetWindow /\ call.window = PyStr("triang") /\ call.fftbins) =>
          ret.w = <<Rat(1, 4), Rat(1, 2), Rat(3, 4), Rat(1, 1),
                    Rat(3, 4), Rat(1, 2), Rat(1, 4)>>

C13_Witness ==
    /\ RanGetWindow /\ call.window = PyStr("triang") /\ call.M = 7
    /\ call.fftbins /\ ret.kind = "ok" /\ Len(ret.w) = 7
    /\ ret.w[4] = One /\ ret.w[1] = Rat(1, 4)

\* C14: for every M >= 1 and both values of sym bartlett returns a window
\* whose first and last samples are zero, with samples 2n / (M' - 1) for
\* n <= (M' - 1) / 2 and 2 - 2n / (M' - 1) otherwise over the
\* post-adjustment length M'.
C14_BartlettZeroEnds ==
    (RanGenerator /\ call.fn = "bartlett" /\ call.M >= 1) =>
        /\ ret.kind = "ok"
        /\ Len(ret.w) >= 1
        /\ ret.w[1] = Zero
        /\ ret.w[Len(ret.w)] = Zero
        /\ call.M >= 2 =>
              LET L == IF ~call.sym /\ call.M % 2 = 0 THEN call.M + 1 ELSE call.M
              IN  \A i \in 1..Len(ret.w) :
                      ret.w[i] = IF 2 * (i - 1) <= L - 1
                                 THEN Rat(2 * (i - 1), L - 1)
                                 ELSE Rat(2 * (L - 1) - 2 * (i - 1), L - 1)

\* C15: for triang, parzen and bartlett and every M >= 1 no sample exceeds
\* 1; the centre sample of the computed window is 1 and is returned,
\* except when M is even and sym is true, where no sample equals 1.
C15_PeakIsOne ==
    (RanGenerator /\ call.fn \in {"triang", "parzen", "bartlett"}
       /\ call.M >= 1) =>
        LET L == IF ~call.sym /\ call.M % 2 = 0 THEN call.M + 1 ELSE call.M
        IN  /\ ret.kind = "ok"
            /\ \A i \in 1..Len(ret.w) :
                  ret.w[i].f = "rat" /\ ret.w[i].x[1] <= ret.w[i].x[2]
            /\ IF call.M % 2 = 0 /\ call.sym
               THEN \A i \in 1..Len(ret.w) : ret.w[i] /= One
               ELSE (L + 1) \div 2 <= Len(ret.w) /\ ret.w[(L + 1) \div 2] = One

C15_Witness ==
    /\ RanGenerator /\ call.fn = "parzen" /\ call.M = 4 /\ ~call.sym
    /\ ret.kind = "ok" /\ Len(ret.w) = 4 /\ ret.w[3] = One

\* C16: the matrix slepian builds has scale factor and sinc factor both
\* equal to the caller's width, and slepian returns the normalized
\* magnitude of its dominant eigenvector.
C16_SlepianScaleIsWidth ==
    (RanGenerator /\ call.fn = "slepian" /\ ret.matdim > 0) =>
        /\ ret.scale[1] = call.args[1] * ret.scale[2]
        /\ ret.matdim = ret.computed
        /\ \A i \in 1..Len(ret.w) :
              ret.w[i] = DominantVector(ret.matdim, call.args[1])[i]

\* C16 as amended: both factors are half the caller's width
\* (twoF = width / 2.0), the matrix has the post-adjustment dimension, and
\* slepian returns the normalized magnitude of its dominant eigenvector.
C16_SlepianScaleIsHalfWidth ==
    (RanGenerator /\ call.fn = "slepian" /\ ret.matdim > 0) =>
        /\ 2 * ret.scale[1] = call.args[1] * ret.scale[2]
        /\ ret.matdim = ret.computed
        /\ ret.matdim = IF ~call.sym /\ call.M % 2 = 0 THEN call.M + 1
                                                      ELSE call.M
        /\ \A i \in 1..Len(ret.w) :
              ret.w[i] = DominantVector(ret.matdim, call.args[1])[i]
        /\ \A i \in 1..Len(ret.w) :
              ret.w[i].f = "slepian" => 2 * ret.w[i].x[3] = Abs(call.args[1]) * ret.w[i].x[4]

C16_Witness ==
    /\ RanGenerator /\ call.fn = "slepian" /\ call.M = 4 /\ call.sym
    /\ call.args[1] = 100 /\ ret.kind = "ok" /\ ret.matdim = 4
    /\ ret.scale = <<100, 2>> /\ Len(ret.w) = 4

\* C17: get_window either returns a window or fails with ValueError; it
\* never fails with another kind of error.
C17_OnlyValidationErrors ==
    RanGetWindow => ret.kind \in {"ok", "ValueError"}

\* C18: whenever slepian builds its matrix, the dimension of the matrix
\* times width is at most 27.38.
C18_NoUnreliableMatrix ==
    (Done /\ ret.matdim > 0) =>
        LET width == IF call.fn = "slepian"
                     THEN call.args[1]
                     ELSE NumOf(Binding(disp.winfunc, disp.params).shape[1])
        IN  ret.matdim * width <= SlepianLimit

C20_ChainIsAMapping ==
    /\ \A j, k \in DOMAIN Chain :
          j /= k => Chain[j].names \cap Chain[k].names = {}
    /\ NeedsParams \subseteq ParameterizedAliases
    /\ (RanGetWindow /\ disp.lookup) =>
          LET name    == NameOf(call.window)
              matches == {k \in DOMAIN Chain : InList(name, Chain[k].names)}
          IN  /\ Cardinality(matches) <= 1
              /\ \A k \in matches : disp.winfunc = Chain[k].fn
              /\ matches = {} => disp.winfunc = ""

C20_Witness ==
    /\ RanGetWindow /\ call.window = PyStr("hanning") /\ call.M = 4
    /\ disp.lookup /\ disp.winfunc = "hann" /\ ret.kind = "ok"

====
